---- MODULE Spec2Model ----
(***************************************************************************)
(* PropertySpotter lead life cycle: the REST endpoints of leads/views.py   *)
(* over the Lead and Property tables, one request handled at a time.       *)
(*                                                                         *)
(* leads    : the Lead table, a sequence indexed by the lead id            *)
(* props    : the Property table, a sequence indexed by the property id    *)
(* listings : the PropertyListing table of listings/views.py, a sequence   *)
(*            indexed by the listing id                                    *)
(* inflight : the lead requests being handled at the same time, each with  *)
(*            the Lead and Property objects it loaded (SpecConcurrent)     *)
(* accounts : the CustomUser table of users/views.py, a function of the    *)
(*            email address (SpecUsers, SpecReset)                         *)
(* vtokens  : the VerificationToken table, a sequence in order of creation *)
(* itokens  : the InvitationToken table, a function of the invited address *)
(* posts    : the BlogPost table, a sequence indexed by the post id        *)
(* viewers  : the detail retrievals being handled at the same time, each   *)
(*            with the view_count it loaded (SpecViews)                    *)
(*                                                                         *)
(* A handler is a function of the stored tables and the request: its       *)
(* result is the HTTP status it answers and the tables it leaves behind.   *)
(* The action of a handler stores the tables of its result.                *)
(*                                                                         *)
(* Timestamps are kept as "is set" flags (TRUE after timezone.now() was    *)
(* stored, FALSE for NULL).  Free-text columns that no handler reads back  *)
(* (names, notes_text, address) are not part of the state.                 *)
(***************************************************************************)
EXTENDS Integers, Sequences, FiniteSets, TLC

VARIABLES leads, props, listings, inflight, accounts, vtokens, itokens,
          posts, viewers

vars == <<leads, props, listings, inflight, accounts, vtokens, itokens,
          posts, viewers>>

----------------------------------------------------------------------------
(* Bounds *)

MaxLeads == 1

MaxProps == 1

MaxListings == 1

MaxViews == 2

MaxImages == 2

MaxInflight == 3

MaxVTokens == 3

MaxPosts == 1

MaxViewers == 3

----------------------------------------------------------------------------
(* Users and agencies (users/models.py).  The accounts are fixed while the *)
(* lead endpoints run.                                                     *)

NULL == "<null>"

Users == {"admin", "spot1", "spot2", "agentA", "adminA", "agentN"}

(* A uuid that belongs to no CustomUser row. *)
GhostUser == "ghost"

Role(u) ==
    CASE u = "admin"  -> "Admin"
      [] u = "spot1"  -> "Spotter"
      [] u = "spot2"  -> "Spotter"
      [] u = "agentA" -> "Agent"
      [] u = "adminA" -> "Agency_Admin"
      [] u = "agentN" -> "Agent"

AgencyOf(u) ==
    CASE u = "agentA" -> "A1"
      [] u = "adminA" -> "A1"
      [] OTHER        -> NULL

Phone(u) ==
    CASE u = "spot2" -> NULL
      [] OTHER       -> "+27"

(* Python's str(): str(None) is the text 'None'. *)
Str(x) == IF x = NULL THEN "None" ELSE x

----------------------------------------------------------------------------
(* Request inputs *)

RequiredFields == {"first_name", "last_name", "phone", "street_address", "suburb"}

FullPayload == [f \in RequiredFields |-> "x"]

(* A submission payload gives each required field a value, the empty text  *)
(* or nothing.  The payloads tried: all fields given, one field left out,  *)
(* one field empty.                                                        *)
SubmissionPayloads ==
    {FullPayload}
      \cup {[FullPayload EXCEPT ![f] = NULL] : f \in RequiredFields}
      \cup {[FullPayload EXCEPT !["phone"] = ""]}

Prices == {250}

UpdatePrices == {100}

Actions == {"accept", "reject", "bogus"}

PropertyStatuses == {NULL, "pending"}

(* Money is counted in cents: the DecimalFields keep two decimal places.   *)
(* NoAmount is the NULL of a money column, or JSON null in a payload;      *)
(* AbsentAmount is a payload without the field.                            *)
NoAmount == -1

AbsentAmount == -2

CommissionInputs == {AbsentAmount, NoAmount, 1000, 1010}

(* updates/twilio_handler.send_message either returns or raises. *)
WhatsAppOutcomes == {"sent", "raised"}

(* django.core.mail.send_mail with fail_silently=False returns or raises. *)
MailOutcomes == {"sent", "raised"}

LeadIds == 1 .. (MaxLeads + 1)

(* The agent ids an assignment request may name. *)
AgentIds == {"agentA", "agentN", "spot1", GhostUser}

ListingIds == 1 .. (MaxListings + 1)

(* is_active in a listing update payload. *)
ActiveInputs == {"absent", "true", "false"}

----------------------------------------------------------------------------
(* Models *)

PlaceholderPrice == 0

NoProperty == 0

NewLead(spotter) ==
    [ spotter         |-> spotter,
      agent           |-> NULL,
      assigned_agency |-> NULL,
      status          |-> "new",
      is_accepted     |-> FALSE,
      property        |-> NoProperty,
      agreed_commission_amount  |-> NoAmount,
      spotter_commission_amount |-> NoAmount,
      platform_fee              |-> NoAmount,
      assigned_at     |-> FALSE,
      accepted_at     |-> FALSE,
      closed_at       |-> FALSE ]

(* What a DecimalField with two decimal places stores for the amount of    *)
(* num / den cents: the quotient rounded half to even.                     *)
Quantize(num, den) ==
    LET q == num \div den
        r == num % den
    IN IF 2 * r < den THEN q
       ELSE IF 2 * r > den THEN q + 1
       ELSE IF q % 2 = 0 THEN q ELSE q + 1

calculate_commissions(lead) ==
    IF lead.agreed_commission_amount # NoAmount
    THEN [lead EXCEPT
            !.spotter_commission_amount =
                Quantize(lead.agreed_commission_amount * 5, 100),
            !.platform_fee =
                Quantize(lead.agreed_commission_amount * 25, 1000)]
    ELSE lead

assign_to_agent(lead, agent) ==
    [lead EXCEPT !.agent = agent,
                 !.assigned_agency = AgencyOf(agent),
                 !.status = "assigned",
                 !.assigned_at = TRUE,
                 !.is_accepted = FALSE,
                 !.accepted_at = FALSE]

accept_leadStatusOnly(lead) ==
    [lead EXCEPT !.status = "accepted", !.accepted_at = TRUE]

accept_lead(lead) ==
    [lead EXCEPT !.status = "accepted", !.is_accepted = TRUE, !.accepted_at = TRUE]

reject_lead(lead) ==
    [lead EXCEPT !.status = "rejected", !.is_accepted = FALSE, !.accepted_at = FALSE]

close_lead(lead) ==
    [lead EXCEPT !.status = "closed", !.closed_at = TRUE]

NewProperty(owner, leadId) ==
    [ status |-> "available",
      price  |-> PlaceholderPrice,
      owner  |-> owner,
      lead   |-> leadId ]

Exists(l) == l \in 1 .. Len(leads)

(* The result of a handler: the status answered and the tables left. *)
Result(code, newLeads, newProps) ==
    [code |-> code, leads |-> newLeads, props |-> newProps]

(* A request answered without any write. *)
Refused(code) == Result(code, leads, props)

----------------------------------------------------------------------------
(* Permissions *)

IsSpotterAnyRole(u) == Role(u) \in {"Spotter", "Agent"}

IsSpotter(u) == Role(u) = "Spotter"

IsAgencyMember(u) ==
    \/ Role(u) = "Admin"
    \/ (Role(u) \in {"Agent", "Agency_Admin"} /\ AgencyOf(u) # NULL)

AgentGetObjectAllowedAgencyAdmin(u, lead) ==
    \/ Role(u) \in {"Admin", "Agency_Admin"}
    \/ ~(lead.agent # u)

(* get_object of the acceptance, property-update, completion and failure   *)
(* views: Admin, or the lead's agent.                                      *)
AgentGetObjectAllowed(u, lead) ==
    \/ Role(u) = "Admin"
    \/ ~(lead.agent # u)

(* LeadDetailView.get_object *)
DetailAllowed(u, lead) ==
    IF Role(u) = "Admin" THEN TRUE
    ELSE IF Role(u) = "Spotter" THEN ~(lead.spotter # u)
    ELSE IF Role(u) \in {"Agent", "Agency_Admin"}
         THEN ~(Str(lead.assigned_agency) # Str(AgencyOf(u)))
    ELSE FALSE

(* The agency check at the head of LeadAssignmentView.update *)
AssignmentAllowed(u, lead) ==
    IF Role(u) = "Admin" THEN TRUE
    ELSE ~(Str(AgencyOf(u)) # Str(lead.assigned_agency))

----------------------------------------------------------------------------
(* Serializers *)

validate_agent_id(a) == a \in Users /\ Role(a) \in {"Agent", "Agency_Admin"}

LeadAssignmentValid(lead, a) ==
    /\ validate_agent_id(a)
    /\ ~(AgencyOf(a) # lead.assigned_agency)

LeadAcceptanceValidNoClosedCheck(lead, action) ==
    /\ action \in {"accept", "reject"}
    /\ ~(action = "accept" /\ lead.is_accepted)
    /\ ~(action = "reject" /\ ~lead.is_accepted)

LeadAcceptanceValid(lead, action) ==
    /\ action \in {"accept", "reject"}
    /\ ~(lead.status = "closed")
    /\ ~(action = "accept" /\ lead.is_accepted)
    /\ ~(action = "reject" /\ ~lead.is_accepted)

LeadPropertyUpdateValid(lead) ==
    /\ ~(lead.property = NoProperty)
    /\ ~(lead.status = "closed")

LeadCompletionValidNoClosedCheck(lead, hasPrice) ==
    /\ hasPrice
    /\ ~(lead.property = NoProperty)

LeadCompletionValid(lead, hasPrice) ==
    /\ hasPrice
    /\ ~(lead.property = NoProperty)
    /\ ~(lead.status = "closed")

LeadFailureValid(lead, hasReason) ==
    /\ hasReason
    /\ ~(lead.status = "closed")

MissingFields(p) == {f \in RequiredFields : p[f] = NULL \/ p[f] = ""}

----------------------------------------------------------------------------
(* Each handler below follows its view: the permission classes, the lookup *)
(* of the lead (404), the view's own permission check (403), the           *)
(* serializer, the writes, the notifications.                              *)

(* LeadSubmissionView.create.  After the lead is stored, a malformed       *)
(* image_count or a raising WhatsApp send to the manager ends in the outer *)
(* except: 500, the lead kept.                                             *)
SubmitResult(u, p, imagesOk, wa) ==
    IF ~IsSpotter(u) THEN Refused(403)
    ELSE IF MissingFields(p) # {} THEN Refused(400)
    ELSE Result(IF imagesOk /\ wa = "sent" THEN 201 ELSE 500,
                Append(leads, NewLead(u)), props)

(* LeadAssignmentView.update.  An invalid payload reaches                  *)
(* `raise serializers.ValidationError`, where `serializers` is a name the  *)
(* views module never imports: the NameError is answered 500.  A failing   *)
(* WhatsApp send is caught and logged.                                     *)
AssignResult(u, l, a) ==
    IF ~IsAgencyMember(u) THEN Refused(403)
    ELSE IF ~Exists(l) THEN Refused(404)
    ELSE IF ~AssignmentAllowed(u, leads[l]) THEN Refused(403)
    ELSE IF ~LeadAssignmentValid(leads[l], a) THEN Refused(500)
    ELSE Result(200, [leads EXCEPT ![l].agent = a], props)

(* LeadDetailView.retrieve *)
DetailResult(u, l) ==
    IF ~Exists(l) THEN Refused(404)
    ELSE IF ~DetailAllowed(u, leads[l]) THEN Refused(403)
    ELSE Refused(200)

(* LeadAcceptanceView.update *)
AcceptResult(u, l, action) ==
    IF ~Exists(l) THEN Refused(404)
    ELSE IF ~AgentGetObjectAllowed(u, leads[l]) THEN Refused(403)
    ELSE IF ~LeadAcceptanceValid(leads[l], action) THEN Refused(400)
    ELSE IF action = "accept"
    THEN Result(200,
                [leads EXCEPT
                   ![l] = accept_lead([@ EXCEPT !.property = Len(props) + 1])],
                Append(props, NewProperty(u, l)))
    ELSE Result(200, [leads EXCEPT ![l] = reject_lead(@)], props)

(* LeadPropertyUpdateSerializer.update on the Property row: the fields the *)
(* payload holds are written, the others kept.  pstatus = NULL and         *)
(* hasPrice = FALSE stand for a payload without that field.                *)
UpdatedProperty(prop, pstatus, hasPrice, price) ==
    [prop EXCEPT !.status = IF pstatus = NULL THEN @ ELSE pstatus,
                 !.price  = IF hasPrice THEN price ELSE @]

(* LeadPropertyUpdateSerializer.update on the Lead row: a payload that     *)
(* holds agreed_commission_amount, a value or null, stores it and calls    *)
(* calculate_commissions.                                                  *)
UpdatedLead(lead, commission) ==
    IF commission = AbsentAmount THEN lead
    ELSE calculate_commissions(
            [lead EXCEPT !.agreed_commission_amount = commission])

(* LeadPropertyUpdateView.update *)
PropertyUpdateResult(u, l, pstatus, hasPrice, price, commission) ==
    IF ~Exists(l) THEN Refused(404)
    ELSE IF ~AgentGetObjectAllowed(u, leads[l]) THEN Refused(403)
    ELSE IF ~LeadPropertyUpdateValid(leads[l]) THEN Refused(400)
    ELSE Result(200,
                [leads EXCEPT ![l] = UpdatedLead(@, commission)],
                [props EXCEPT ![leads[l].property] =
                   UpdatedProperty(@, pstatus, hasPrice, price)])

(* The WhatsApp send of the completion and failure views sits in the outer *)
(* try: when it raises, the writes are already stored and the answer is    *)
(* 500.  It is only attempted when the spotter has a phone number.         *)
NotifyRaises(lead, wa) ==
    lead.spotter # NULL /\ Phone(lead.spotter) # NULL /\ wa = "raised"

(* LeadCompletionView.update; hasPrice = FALSE is a payload without        *)
(* final_price.                                                            *)
CompleteResult(u, l, hasPrice, price, wa) ==
    IF ~Exists(l) THEN Refused(404)
    ELSE IF ~AgentGetObjectAllowed(u, leads[l]) THEN Refused(403)
    ELSE IF ~LeadCompletionValid(leads[l], hasPrice) THEN Refused(400)
    ELSE Result(IF NotifyRaises(leads[l], wa) THEN 500 ELSE 200,
                [leads EXCEPT ![l] = [@ EXCEPT !.status = "closed",
                                               !.closed_at = TRUE]],
                [props EXCEPT ![leads[l].property] =
                   [@ EXCEPT !.status = "sold", !.price = price]])

(* LeadFailureView.update; hasReason = FALSE is a payload without reason.  *)
FailResult(u, l, hasReason, wa) ==
    IF ~Exists(l) THEN Refused(404)
    ELSE IF ~AgentGetObjectAllowed(u, leads[l]) THEN Refused(403)
    ELSE IF ~LeadFailureValid(leads[l], hasReason) THEN Refused(400)
    ELSE Result(IF NotifyRaises(leads[l], wa) THEN 500 ELSE 200,
                [leads EXCEPT ![l] = [@ EXCEPT !.status = "closed",
                                               !.closed_at = TRUE]],
                props)

----------------------------------------------------------------------------
(* Property listings (listings/views.py).  Every handler body sits in a    *)
(* try whose `except Exception` answers 500: the Http404 of get_object and *)
(* the ValidationError of is_valid(raise_exception=True) end there too.    *)

IsStaff(u) == u = "admin"

NewListing(agent, images) ==
    [ agent      |-> agent,
      is_active  |-> TRUE,
      view_count |-> 0,
      images     |-> images,
      deleted    |-> FALSE ]

(* The row of a deleted listing: no request finds it any more. *)
DeletedListing ==
    [ agent      |-> NULL,
      is_active  |-> FALSE,
      view_count |-> 0,
      images     |-> 0,
      deleted    |-> TRUE ]

ListingExists(g) == g \in 1 .. Len(listings) /\ ~listings[g].deleted

ListingResult(code, newListings) == [code |-> code, listings |-> newListings]

ListingRefused(code) == ListingResult(code, listings)

(* get_queryset of the update and delete views: staff see every listing,   *)
(* the others the listings whose agent they are.                           *)
ListingVisible(u, g) == IsStaff(u) \/ listings[g].agent = u

increment_view_count(listing) == [listing EXCEPT !.view_count = @ + 1]

(* PropertyListingDetailView.retrieve, over the active listings. *)
ListingDetailResult(g) ==
    IF ~(ListingExists(g) /\ listings[g].is_active) THEN ListingRefused(500)
    ELSE ListingResult(200, [listings EXCEPT ![g] = increment_view_count(@)])

(* PropertyListingCreateView.create; images is the number of images in the *)
(* payload.                                                                *)
ListingCreateResult(u, valid, images) ==
    IF ~valid THEN ListingRefused(500)
    ELSE ListingResult(201, Append(listings, NewListing(u, images)))

(* PropertyListingUpdateView.update; hasImages = FALSE is a payload        *)
(* without images.                                                         *)
ListingUpdateResult(u, g, valid, active, hasImages, images) ==
    IF ~(ListingExists(g) /\ ListingVisible(u, g)) THEN ListingRefused(500)
    ELSE IF ~valid THEN ListingRefused(500)
    ELSE ListingResult(200,
            [listings EXCEPT
               ![g].is_active = IF active = "absent" THEN @ ELSE active = "true",
               ![g].images = IF hasImages THEN images ELSE @])

(* PropertyListingDeleteView.destroy *)
ListingDeleteResult(u, g) ==
    IF ~(ListingExists(g) /\ ListingVisible(u, g)) THEN ListingRefused(500)
    ELSE ListingResult(204, [listings EXCEPT ![g] = DeletedListing])

(* PropertyImageUploadView.create *)
ImageUploadResult(u, g, valid) ==
    IF ~ListingExists(g) THEN ListingRefused(500)
    ELSE IF ~IsStaff(u) /\ listings[g].agent # u THEN ListingRefused(403)
    ELSE IF ~valid THEN ListingRefused(500)
    ELSE ListingResult(201, [listings EXCEPT ![g].images = @ + 1])

(* ContactEntryView.create.  The entry is saved before the mail is sent; a *)
(* raising send_mail ends in the except branch, which saves the entry only *)
(* if the try block had not yet done so, and answers 201 all the same.     *)
(* The result tells the status answered and how many entries were saved.   *)
ContactResult(valid, mail) ==
    IF ~valid THEN [code |-> 400, saved |-> 0]
    ELSE LET savedInTry == 1
             savedInExcept == IF savedInTry = 0 THEN 1 ELSE 0
         IN IF mail = "sent" THEN [code |-> 201, saved |-> savedInTry]
            ELSE [code |-> 201, saved |-> savedInTry + savedInExcept]

(* updates/services.WhatsAppService.send_message catches every exception   *)
(* and reports the send as a success or a failure.                         *)
SendResults == {"success", "failure"}

(* The Update row made by UpdateSerializer.save(): delivery_status starts  *)
(* as 'pending'.                                                           *)
NewUpdate(recipient) ==
    [recipient |-> recipient, delivery_status |-> "pending", delivery_attempts |-> 0]

mark_as_sent(update) ==
    [update EXCEPT !.delivery_status = "sent", !.delivery_attempts = @ + 1]

mark_as_failed(update) ==
    [update EXCEPT !.delivery_status = "failed", !.delivery_attempts = @ + 1]

(* UpdateCreateView.create (POST /updates/create/), for an authenticated   *)
(* caller.  created is the sequence of Update rows the request leaves in   *)
(* the table.  The recipient is looked up first (400 when there is no such *)
(* user); the serializer wants title and message and a recipient with role *)
(* 'Spotter'; the row is saved before the phone number is looked at and    *)
(* before the message is sent.                                             *)
UpdateCreateResult(recipient, valid, send) ==
    IF recipient \notin Users THEN [code |-> 400, created |-> << >>]
    ELSE IF ~(valid /\ Role(recipient) = "Spotter")
    THEN [code |-> 400, created |-> << >>]
    ELSE LET update == NewUpdate(recipient)
         IN IF Phone(recipient) = NULL
            THEN [code |-> 400, created |-> <<update>>]
            ELSE IF send = "success"
            THEN [code |-> 201, created |-> <<mark_as_sent(update)>>]
            ELSE [code |-> 500, created |-> <<mark_as_failed(update)>>]

----------------------------------------------------------------------------
(* User accounts (users/views.py, users/serializers.py).  An account is    *)
(* named by its email address, which is unique.  The accounts of Users     *)
(* exist and are active from the start; the addresses of NewEmails and     *)
(* InviteEmails get an account through registration or through an          *)
(* invitation.  A VerificationToken is named by its position in vtokens,   *)
(* an InvitationToken by the address it was made for (InvitationToken.email *)
(* is unique).  The Token rows of the login endpoint are not part of the   *)
(* state: a bearer request is taken to carry the key of its user.          *)

NewEmails == {"new1"}

InviteEmails == {"inv1"}

AccountIds == Users \cup NewEmails \cup InviteEmails

RoleChoices == {"Spotter", "Agent", "Master Agent", "Agency_Admin", "Admin"}

(* The role a registration payload carries: none, a choice, or a text that *)
(* is no choice.                                                           *)
RegistrationRoles == {NULL, "Admin", "Boss"}

RegistrationAgencies == {NULL}

Passwords == {"pw1", "pw2"}

(* What PasswordResetRequestSerializer and PasswordResetConfirmSerializer  *)
(* say of a payload: users/views.py imports the two classes from           *)
(* users/serializers.py, which does not define them.  The views read       *)
(* validated_data['email'], and validated_data['token'] and ['password'].  *)
ResetSerializerVerdicts == BOOLEAN

NoAccount ==
    [ exists    |-> FALSE,
      is_active |-> FALSE,
      role      |-> NULL,
      agency    |-> NULL,
      password  |-> NULL ]

SeededAccount(u) ==
    [ exists    |-> TRUE,
      is_active |-> TRUE,
      role      |-> Role(u),
      agency    |-> AgencyOf(u),
      password  |-> "pw1" ]

(* VerificationToken: used defaults to False, expires_at to one day after  *)
(* creation.                                                               *)
NewVerificationToken(user) == [user |-> user, used |-> FALSE, expired |-> FALSE]

NoInvitation == [exists |-> FALSE, agency |-> NULL, is_used |-> FALSE, expired |-> FALSE]

NewInvitation(agency) ==
    [exists |-> TRUE, agency |-> agency, is_used |-> FALSE, expired |-> FALSE]

VTokenIds == 1 .. (MaxVTokens + 1)

VTokenExists(t) == t \in 1 .. Len(vtokens)

(* The invitation tokens a request may present: one per invited address,   *)
(* and a text that is no token.                                            *)
InvitationKeys == InviteEmails \cup {"bogus"}

HasAccount(e) == e \in AccountIds /\ accounts[e].exists

(* The result of a users handler: the status answered and the tables left. *)
UserResult(code, newAccounts, newVTokens, newITokens) ==
    [ code     |-> code,
      accounts |-> newAccounts,
      vtokens  |-> newVTokens,
      itokens  |-> newITokens ]

UserRefused(code) == UserResult(code, accounts, vtokens, itokens)

BearerAuthenticatesAnyUser(u) == HasAccount(u)

(* BearerTokenAuthentication.authenticate_credentials, for the key of u's  *)
(* Token row.                                                              *)
BearerAuthenticates(u) == HasAccount(u) /\ accounts[u].is_active

(* users/views.IsAgencyMember *)
UsersIsAgencyMember(u) ==
    \/ accounts[u].role = "Admin"
    \/ (accounts[u].role \in {"Agent", "Agency_Admin"} /\ accounts[u].agency # NULL)

(* UserRegistrationSerializer.create followed by                           *)
(* UserRegistrationView.perform_create: the serializer makes the user and  *)
(* a token and sends the mail, the view makes a second token.  send_mail   *)
(* is called with fail_silently=False and nothing catches its exception:   *)
(* the answer is 500, and the user and the first token stay unless the     *)
(* request runs in a transaction (ATOMIC_REQUESTS, set outside this tree). *)
RegistrationResult(email, role, agency, valid, mail, atomic) ==
    IF ~valid THEN UserRefused(400)
    ELSE IF role \notin RoleChoices \cup {NULL} THEN UserRefused(400)
    ELSE IF HasAccount(email) THEN UserRefused(400)
    ELSE LET user == [ exists    |-> TRUE,
                       is_active |-> FALSE,
                       role      |-> IF role = NULL THEN "Spotter" ELSE role,
                       agency    |-> agency,
                       password  |-> "pw1" ]
             created == [accounts EXCEPT ![email] = user]
             token == NewVerificationToken(email)
         IN IF mail = "raised"
            THEN IF atomic THEN UserRefused(500)
                 ELSE UserResult(500, created, Append(vtokens, token), itokens)
            ELSE UserResult(201, created,
                            Append(Append(vtokens, token), token), itokens)

VerificationTokenValidNoUsedCheck(t) ==
    /\ VTokenExists(t)
    /\ ~vtokens[t].expired

(* EmailVerificationSerializer.validate_token *)
VerificationTokenValid(t) ==
    /\ VTokenExists(t)
    /\ ~vtokens[t].used
    /\ ~vtokens[t].expired

(* EmailVerificationView.post *)
EmailVerificationResult(t) ==
    IF ~VerificationTokenValid(t) THEN UserRefused(400)
    ELSE UserResult(200,
                    [accounts EXCEPT ![vtokens[t].user].is_active = TRUE],
                    [vtokens EXCEPT ![t].used = TRUE],
                    itokens)

(* EmailAuthTokenSerializer.validate and EmailLoginView.post: authenticate *)
(* returns no user for a wrong password and for an inactive account.       *)
EmailLoginResult(email, password) ==
    IF /\ HasAccount(email)
       /\ accounts[email].password = password
       /\ accounts[email].is_active
    THEN UserRefused(200)
    ELSE UserRefused(400)

(* DeactivateUserView.get_object: the checks made once the target row is   *)
(* found.  Python compares str(agency_id) of the two users.                *)
DeactivateGetObjectAllowed(u, target) ==
    \/ accounts[u].role = "Admin"
    \/ /\ Str(accounts[u].agency) = Str(accounts[target].agency)
       /\ ~(accounts[u].role = "Agency_Admin" /\ accounts[target].role # "Agent")

(* DeactivateUserView.update *)
DeactivateResult(u, target) ==
    IF ~BearerAuthenticates(u) THEN UserRefused(401)
    ELSE IF ~UsersIsAgencyMember(u) THEN UserRefused(403)
    ELSE IF ~HasAccount(target) THEN UserRefused(404)
    ELSE IF ~DeactivateGetObjectAllowed(u, target) THEN UserRefused(403)
    ELSE UserResult(200, [accounts EXCEPT ![target].is_active = FALSE],
                    vtokens, itokens)

(* ReactivateUserView.get_object *)
ReactivateGetObjectAllowed(u, target) ==
    \/ accounts[u].role = "Admin"
    \/ /\ Str(accounts[u].agency) = Str(accounts[target].agency)
       /\ ~(accounts[u].role = "Agency_Admin" /\ accounts[target].role # "Agent")

(* ReactivateUserView.update *)
ReactivateResult(u, target) ==
    IF ~BearerAuthenticates(u) THEN UserRefused(401)
    ELSE IF ~UsersIsAgencyMember(u) THEN UserRefused(403)
    ELSE IF ~HasAccount(target) THEN UserRefused(404)
    ELSE IF ~ReactivateGetObjectAllowed(u, target) THEN UserRefused(403)
    ELSE UserResult(200, [accounts EXCEPT ![target].is_active = TRUE],
                    vtokens, itokens)

(* The two bodies PasswordResetRequestView.post answers with status 200.   *)
ResetMailSent == "Password reset email has been sent."

ResetMailMaybe ==
    "If an account exists with this email, you will receive a password reset link."

(* PasswordResetRequestView.post.  valid is the verdict of                 *)
(* PasswordResetRequestSerializer on the payload.  The token is stored     *)
(* before send_mail, whose exception nothing catches.                      *)
PasswordResetRequestResult(email, valid, mail, atomic) ==
    IF ~valid
    THEN [body |-> "error"] @@ UserRefused(400)
    ELSE IF ~HasAccount(email)
    THEN [body |-> ResetMailMaybe] @@ UserRefused(200)
    ELSE LET stored == Append(vtokens, NewVerificationToken(email))
         IN IF mail = "raised"
            THEN [body |-> "error"] @@
                 (IF atomic THEN UserRefused(500)
                  ELSE UserResult(500, accounts, stored, itokens))
            ELSE [body |-> ResetMailSent] @@
                 UserResult(200, accounts, stored, itokens)

(* PasswordResetConfirmView.post.  valid is the verdict of                 *)
(* PasswordResetConfirmSerializer on the payload.                          *)
PasswordResetConfirmResult(t, password, valid) ==
    IF ~valid THEN UserRefused(400)
    ELSE IF ~(VTokenExists(t) /\ ~vtokens[t].used) THEN UserRefused(400)
    ELSE IF vtokens[t].expired THEN UserRefused(400)
    ELSE UserResult(200,
                    [accounts EXCEPT ![vtokens[t].user].password = password],
                    [vtokens EXCEPT ![t].used = TRUE],
                    itokens)

(* AgentInvitationView.create.  InvitationToken.objects.create raises an   *)
(* IntegrityError, which nothing catches, when the inviter has no agency   *)
(* or the address already has an invitation; a failing send_mail deletes   *)
(* the invitation.                                                         *)
AgentInvitationResult(u, email, valid, mail) ==
    IF ~BearerAuthenticates(u) THEN UserRefused(401)
    ELSE IF ~UsersIsAgencyMember(u) THEN UserRefused(403)
    ELSE IF ~valid \/ HasAccount(email) THEN UserRefused(400)
    ELSE IF accounts[u].agency = NULL \/ itokens[email].exists
    THEN UserRefused(500)
    ELSE IF mail = "raised" THEN UserRefused(500)
    ELSE UserResult(201, accounts, vtokens,
                    [itokens EXCEPT ![email] = NewInvitation(accounts[u].agency)])

(* SetPasswordView.create; valid is the verdict of PasswordSetSerializer   *)
(* (the two passwords agree and pass validate_password).  create_user      *)
(* raises when the address has an account by now: 500, the invitation      *)
(* unused.                                                                 *)
SetPasswordResult(k, password, valid) ==
    IF ~valid THEN UserRefused(400)
    ELSE IF ~(k \in InviteEmails /\ itokens[k].exists /\ ~itokens[k].is_used)
    THEN UserRefused(400)
    ELSE IF itokens[k].expired THEN UserRefused(400)
    ELSE IF HasAccount(k) THEN UserRefused(500)
    ELSE UserResult(201,
                    [accounts EXCEPT ![k] =
                        [ exists    |-> TRUE,
                          is_active |-> TRUE,
                          role      |-> "Agent",
                          agency    |-> itokens[k].agency,
                          password  |-> password ]],
                    vtokens,
                    [itokens EXCEPT ![k].is_used = TRUE])

----------------------------------------------------------------------------
(* The state machine: one request at a time, each storing its result.  The *)
(* tables are capped at MaxLeads and MaxProps rows.                        *)

Slots == 1 .. MaxInflight

(* A worker that handles no request. *)
Idle ==
    [ kind  |-> "idle",
      pc    |-> "idle",
      user  |-> NULL,
      l     |-> 0,
      agent |-> NULL,
      price |-> PlaceholderPrice,
      lead  |-> NewLead(NULL),
      prop  |-> NewProperty(NULL, 0) ]

(* BlogPost: a published post, view_count 0. *)
NewPost == [status |-> "published", view_count |-> 0]

ViewSlots == 1 .. MaxViewers

(* A worker that handles no retrieval. *)
IdleViewer == [pc |-> "idle", kind |-> "idle", id |-> 0, view_count |-> 0]

Init ==
    /\ leads = << >>
    /\ props = << >>
    /\ listings = << >>
    /\ inflight = [s \in Slots |-> Idle]
    /\ accounts = [e \in AccountIds |->
                      IF e \in Users THEN SeededAccount(e) ELSE NoAccount]
    /\ vtokens = << >>
    /\ itokens = [k \in InviteEmails |-> NoInvitation]
    /\ posts = << >>
    /\ viewers = [s \in ViewSlots |-> IdleViewer]

(* A result that leaves both tables as they are is a stuttering step,      *)
(* which Spec allows at any time; the actions take the steps that write.   *)
Writes(r) ==
    /\ (r.leads # leads \/ r.props # props)
    /\ Len(r.leads) <= MaxLeads
    /\ Len(r.props) <= MaxProps

Submit ==
    \E u \in Users, p \in SubmissionPayloads, imagesOk \in BOOLEAN,
       wa \in WhatsAppOutcomes :
         LET r == SubmitResult(u, p, imagesOk, wa)
         IN Writes(r) /\ leads' = r.leads /\ props' = r.props
            /\ UNCHANGED <<listings, inflight, accounts, vtokens, itokens, posts, viewers>>

Assign ==
    \E u \in Users, l \in LeadIds, a \in AgentIds :
         LET r == AssignResult(u, l, a)
         IN Writes(r) /\ leads' = r.leads /\ props' = r.props
            /\ UNCHANGED <<listings, inflight, accounts, vtokens, itokens, posts, viewers>>

(* A retrieval writes nothing, whatever it answers. *)
Detail ==
    \E u \in Users, l \in LeadIds :
         LET r == DetailResult(u, l)
         IN r.code \in {200, 403, 404} /\ leads' = r.leads /\ props' = r.props
            /\ UNCHANGED <<listings, inflight, accounts, vtokens, itokens, posts, viewers>>

Accept ==
    \E u \in Users, l \in LeadIds, action \in Actions :
         LET r == AcceptResult(u, l, action)
         IN Writes(r) /\ leads' = r.leads /\ props' = r.props
            /\ UNCHANGED <<listings, inflight, accounts, vtokens, itokens, posts, viewers>>

(* A property update whose payload holds no agreed_commission_amount. *)
PropertyUpdate ==
    \E u \in Users, l \in LeadIds, pstatus \in PropertyStatuses,
       hasPrice \in BOOLEAN, price \in UpdatePrices :
         LET r == PropertyUpdateResult(u, l, pstatus, hasPrice, price, AbsentAmount)
         IN Writes(r) /\ leads' = r.leads /\ props' = r.props
            /\ UNCHANGED <<listings, inflight, accounts, vtokens, itokens, posts, viewers>>

(* A property update whose payload holds agreed_commission_amount. *)
PropertyUpdateCommission ==
    \E u \in Users, l \in LeadIds, pstatus \in PropertyStatuses,
       hasPrice \in BOOLEAN, price \in UpdatePrices,
       commission \in CommissionInputs \ {AbsentAmount} :
         LET r == PropertyUpdateResult(u, l, pstatus, hasPrice, price, commission)
         IN Writes(r) /\ leads' = r.leads /\ props' = r.props
            /\ UNCHANGED <<listings, inflight, accounts, vtokens, itokens, posts, viewers>>

Complete ==
    \E u \in Users, l \in LeadIds, hasPrice \in BOOLEAN, price \in Prices,
       wa \in WhatsAppOutcomes :
         LET r == CompleteResult(u, l, hasPrice, price, wa)
         IN Writes(r) /\ leads' = r.leads /\ props' = r.props
            /\ UNCHANGED <<listings, inflight, accounts, vtokens, itokens, posts, viewers>>

Fail ==
    \E u \in Users, l \in LeadIds, hasReason \in BOOLEAN,
       wa \in WhatsAppOutcomes :
         LET r == FailResult(u, l, hasReason, wa)
         IN Writes(r) /\ leads' = r.leads /\ props' = r.props
            /\ UNCHANGED <<listings, inflight, accounts, vtokens, itokens, posts, viewers>>

Next ==
    \/ Submit
    \/ Assign
    \/ Detail
    \/ Accept
    \/ PropertyUpdate
    \/ Complete
    \/ Fail

Spec == Init /\ [][Next]_vars

(* The same requests, and the property updates that carry a commission. *)
NextCommission ==
    \/ Next
    \/ PropertyUpdateCommission

SpecCommission == Init /\ [][NextCommission]_vars

(* The listing endpoints, one request at a time.  The table is capped at   *)
(* MaxListings rows, a listing at MaxViews views and MaxImages images.     *)
ListingWrites(r) ==
    /\ r.listings # listings
    /\ Len(r.listings) <= MaxListings
    /\ \A g \in 1 .. Len(r.listings) :
          r.listings[g].view_count <= MaxViews /\ r.listings[g].images <= MaxImages

ListingCreate ==
    \E u \in Users, valid \in BOOLEAN, images \in 0 .. 1 :
         LET r == ListingCreateResult(u, valid, images)
         IN ListingWrites(r) /\ listings' = r.listings
            /\ UNCHANGED <<leads, props, inflight, accounts, vtokens, itokens, posts, viewers>>

ListingDetail ==
    \E g \in ListingIds :
         LET r == ListingDetailResult(g)
         IN ListingWrites(r) /\ listings' = r.listings
            /\ UNCHANGED <<leads, props, inflight, accounts, vtokens, itokens, posts, viewers>>

ListingUpdate ==
    \E u \in Users, g \in ListingIds, valid \in BOOLEAN, active \in ActiveInputs,
       hasImages \in BOOLEAN, images \in 0 .. 1 :
         LET r == ListingUpdateResult(u, g, valid, active, hasImages, images)
         IN ListingWrites(r) /\ listings' = r.listings
            /\ UNCHANGED <<leads, props, inflight, accounts, vtokens, itokens, posts, viewers>>

ListingDelete ==
    \E u \in Users, g \in ListingIds :
         LET r == ListingDeleteResult(u, g)
         IN ListingWrites(r) /\ listings' = r.listings
            /\ UNCHANGED <<leads, props, inflight, accounts, vtokens, itokens, posts, viewers>>

ImageUpload ==
    \E u \in Users, g \in ListingIds, valid \in BOOLEAN :
         LET r == ImageUploadResult(u, g, valid)
         IN ListingWrites(r) /\ listings' = r.listings
            /\ UNCHANGED <<leads, props, inflight, accounts, vtokens, itokens, posts, viewers>>

NextListings ==
    \/ ListingCreate
    \/ ListingDetail
    \/ ListingUpdate
    \/ ListingDelete
    \/ ImageUpload

SpecListings == Init /\ [][NextListings]_vars

----------------------------------------------------------------------------
(* The lead endpoints handled at the same time by MaxInflight workers,     *)
(* each handling one request.  A request loads the Lead row (get_object)   *)
(* and is checked and validated against the loaded object; the completion  *)
(* and property-update serializers also load lead.property.  Each ORM call *)
(* that follows is one step: Property.objects.create, property.save(),     *)
(* lead.save().  save() writes every column of the loaded object.  A       *)
(* request that is refused writes nothing and takes no worker.             *)

Kinds == {"accept", "reject", "assign", "update", "complete", "fail"}

(* The request passes the permission checks and the serializer of its      *)
(* view against the stored lead l.                                         *)
Admitted(kind, u, l, a) ==
    CASE kind \in {"accept", "reject"} ->
            AgentGetObjectAllowed(u, leads[l]) /\ LeadAcceptanceValid(leads[l], kind)
      [] kind = "assign" ->
            /\ IsAgencyMember(u)
            /\ AssignmentAllowed(u, leads[l])
            /\ LeadAssignmentValid(leads[l], a)
      [] kind = "update" ->
            AgentGetObjectAllowed(u, leads[l]) /\ LeadPropertyUpdateValid(leads[l])
      [] kind = "complete" ->
            AgentGetObjectAllowed(u, leads[l]) /\ LeadCompletionValid(leads[l], TRUE)
      [] kind = "fail" ->
            AgentGetObjectAllowed(u, leads[l]) /\ LeadFailureValid(leads[l], TRUE)

FirstStep(kind) ==
    CASE kind = "accept" -> "create"
      [] kind \in {"update", "complete"} -> "save_property"
      [] OTHER -> "save_lead"

(* What the handler has set on its Lead object when it calls save(). *)
LeadToSave(r) ==
    CASE r.kind = "accept" -> accept_lead(r.lead)
      [] r.kind = "reject" -> reject_lead(r.lead)
      [] r.kind = "assign" -> [r.lead EXCEPT !.agent = r.agent]
      [] r.kind = "update" -> UpdatedLead(r.lead, AbsentAmount)
      [] r.kind \in {"complete", "fail"} ->
            [r.lead EXCEPT !.status = "closed", !.closed_at = TRUE]

(* What the handler has set on its Property object when it calls save(). *)
PropertyToSave(r) ==
    IF r.kind = "complete"
    THEN [r.prop EXCEPT !.status = "sold", !.price = r.price]
    ELSE UpdatedProperty(r.prop, "pending", FALSE, PlaceholderPrice)

Begin ==
    \E s \in Slots, kind \in Kinds, u \in Users, l \in 1 .. Len(leads) :
       \E a \in (IF kind = "assign" THEN AgentIds ELSE {NULL}),
          price \in (IF kind = "complete" THEN Prices ELSE {PlaceholderPrice}) :
         /\ inflight[s].pc = "idle"
         /\ Admitted(kind, u, l, a)
         /\ inflight' = [inflight EXCEPT ![s] =
               [ kind  |-> kind,
                 pc    |-> FirstStep(kind),
                 user  |-> u,
                 l     |-> l,
                 agent |-> a,
                 price |-> price,
                 lead  |-> leads[l],
                 prop  |-> IF kind \in {"update", "complete"}
                           THEN props[leads[l].property]
                           ELSE Idle.prop ]]
         /\ UNCHANGED <<leads, props, listings, accounts, vtokens, itokens, posts, viewers>>

CreateProperty ==
    \E s \in Slots :
       /\ inflight[s].pc = "create"
       /\ props' = Append(props, NewProperty(inflight[s].user, inflight[s].l))
       /\ inflight' = [inflight EXCEPT ![s].lead.property = Len(props) + 1,
                                       ![s].pc = "save_lead"]
       /\ UNCHANGED <<leads, listings, accounts, vtokens, itokens, posts, viewers>>

SaveProperty ==
    \E s \in Slots :
       /\ inflight[s].pc = "save_property"
       /\ props' = [props EXCEPT ![inflight[s].lead.property] =
                       PropertyToSave(inflight[s])]
       /\ inflight' = [inflight EXCEPT ![s].pc = "save_lead"]
       /\ UNCHANGED <<leads, listings, accounts, vtokens, itokens, posts, viewers>>

SaveLead ==
    \E s \in Slots :
       /\ inflight[s].pc = "save_lead"
       /\ leads' = [leads EXCEPT ![inflight[s].l] = LeadToSave(inflight[s])]
       /\ inflight' = [inflight EXCEPT ![s].pc = "done"]
       /\ UNCHANGED <<props, listings, accounts, vtokens, itokens, posts, viewers>>

NextConcurrent ==
    \/ Submit
    \/ Begin
    \/ CreateProperty
    \/ SaveProperty
    \/ SaveLead

SpecConcurrent == Init /\ [][NextConcurrent]_vars

----------------------------------------------------------------------------
(* The users endpoints, one request at a time.  Time passes between        *)
(* requests: verification tokens live one day and run out in the order     *)
(* they were made, an invitation runs out after seven days.                *)

UserWrites(r) ==
    /\ (r.accounts # accounts \/ r.vtokens # vtokens \/ r.itokens # itokens)
    /\ Len(r.vtokens) <= MaxVTokens

(* The addresses a password-reset request names. *)
ResetEmails == NewEmails \cup {GhostUser}

(* The addresses of accounts that exist from the start, for which          *)
(* SpecReset sends password-reset requests as well.                        *)
SeededResetEmails == {"agentA"}

(* The accounts a deactivate or reactivate request names. *)
ActivationTargets == NewEmails \cup InviteEmails \cup {"agentA", "adminA", GhostUser}

Register ==
    \E email \in NewEmails, role \in RegistrationRoles,
       agency \in RegistrationAgencies, valid \in BOOLEAN,
       mail \in MailOutcomes, atomic \in BOOLEAN :
         LET r == RegistrationResult(email, role, agency, valid, mail, atomic)
         IN /\ UserWrites(r)
            /\ accounts' = r.accounts
            /\ vtokens' = r.vtokens
            /\ itokens' = r.itokens
            /\ UNCHANGED <<leads, props, listings, inflight, posts, viewers>>

VerifyEmail ==
    \E t \in VTokenIds :
         LET r == EmailVerificationResult(t)
         IN /\ UserWrites(r)
            /\ accounts' = r.accounts
            /\ vtokens' = r.vtokens
            /\ itokens' = r.itokens
            /\ UNCHANGED <<leads, props, listings, inflight, posts, viewers>>

Deactivate ==
    \E u \in AccountIds, target \in ActivationTargets :
         LET r == DeactivateResult(u, target)
         IN /\ UserWrites(r)
            /\ accounts' = r.accounts
            /\ vtokens' = r.vtokens
            /\ itokens' = r.itokens
            /\ UNCHANGED <<leads, props, listings, inflight, posts, viewers>>

Reactivate ==
    \E u \in AccountIds, target \in ActivationTargets :
         LET r == ReactivateResult(u, target)
         IN /\ UserWrites(r)
            /\ accounts' = r.accounts
            /\ vtokens' = r.vtokens
            /\ itokens' = r.itokens
            /\ UNCHANGED <<leads, props, listings, inflight, posts, viewers>>

PasswordResetRequest ==
    \E email \in ResetEmails, valid \in ResetSerializerVerdicts,
       mail \in MailOutcomes,
       atomic \in BOOLEAN :
         LET r == PasswordResetRequestResult(email, valid, mail, atomic)
         IN /\ UserWrites(r)
            /\ accounts' = r.accounts
            /\ vtokens' = r.vtokens
            /\ itokens' = r.itokens
            /\ UNCHANGED <<leads, props, listings, inflight, posts, viewers>>

PasswordResetConfirm ==
    \E t \in VTokenIds, password \in Passwords,
       valid \in ResetSerializerVerdicts :
         LET r == PasswordResetConfirmResult(t, password, valid)
         IN /\ UserWrites(r)
            /\ accounts' = r.accounts
            /\ vtokens' = r.vtokens
            /\ itokens' = r.itokens
            /\ UNCHANGED <<leads, props, listings, inflight, posts, viewers>>

AgentInvitation ==
    \E u \in AccountIds, email \in InviteEmails, valid \in BOOLEAN,
       mail \in MailOutcomes :
         LET r == AgentInvitationResult(u, email, valid, mail)
         IN /\ UserWrites(r)
            /\ accounts' = r.accounts
            /\ vtokens' = r.vtokens
            /\ itokens' = r.itokens
            /\ UNCHANGED <<leads, props, listings, inflight, posts, viewers>>

SetPassword ==
    \E k \in InvitationKeys, password \in Passwords, valid \in BOOLEAN :
         LET r == SetPasswordResult(k, password, valid)
         IN /\ UserWrites(r)
            /\ accounts' = r.accounts
            /\ vtokens' = r.vtokens
            /\ itokens' = r.itokens
            /\ UNCHANGED <<leads, props, listings, inflight, posts, viewers>>

(* VerificationToken.is_expired becomes true for the oldest token that has *)
(* not run out yet.                                                        *)
VerificationTokenExpires ==
    \E t \in 1 .. Len(vtokens) :
       /\ ~vtokens[t].expired
       /\ \A j \in 1 .. (t - 1) : vtokens[j].expired
       /\ vtokens' = [vtokens EXCEPT ![t].expired = TRUE]
       /\ UNCHANGED <<leads, props, listings, inflight, accounts, itokens,
                      posts, viewers>>

(* InvitationToken.is_expired becomes true. *)
InvitationExpires ==
    \E k \in InviteEmails :
       /\ itokens[k].exists /\ ~itokens[k].expired
       /\ itokens' = [itokens EXCEPT ![k].expired = TRUE]
       /\ UNCHANGED <<leads, props, listings, inflight, accounts, vtokens,
                      posts, viewers>>

NextUsers ==
    \/ Register
    \/ VerifyEmail
    \/ Deactivate
    \/ Reactivate
    \/ PasswordResetRequest
    \/ PasswordResetConfirm
    \/ AgentInvitation
    \/ SetPassword
    \/ VerificationTokenExpires
    \/ InvitationExpires

SpecUsers == Init /\ [][NextUsers]_vars

PasswordResetRequestSeeded ==
    \E email \in SeededResetEmails, valid \in ResetSerializerVerdicts,
       mail \in MailOutcomes, atomic \in BOOLEAN :
         LET r == PasswordResetRequestResult(email, valid, mail, atomic)
         IN /\ UserWrites(r)
            /\ accounts' = r.accounts
            /\ vtokens' = r.vtokens
            /\ itokens' = r.itokens
            /\ UNCHANGED <<leads, props, listings, inflight, posts, viewers>>

NextReset == NextUsers \/ PasswordResetRequestSeeded

SpecReset == Init /\ [][NextReset]_vars

----------------------------------------------------------------------------
(* Detail retrievals handled at the same time by MaxViewers workers, each  *)
(* handling one retrieval.  The handler loads the row, and                 *)
(* increment_view_count adds one to the loaded number and writes the       *)
(* view_count column.  Blog posts are written in the admin screens.        *)

(* BlogPostAdmin: a post is saved with status 'published'. *)
PublishPost ==
    /\ Len(posts) < MaxPosts
    /\ posts' = Append(posts, NewPost)
    /\ UNCHANGED <<leads, props, listings, inflight, accounts, vtokens,
                   itokens, viewers>>

(* PropertyListingDetailView.retrieve: get_object over the active listings *)
LoadListing ==
    \E s \in ViewSlots, g \in 1 .. Len(listings) :
       /\ viewers[s].pc = "idle"
       /\ ListingExists(g) /\ listings[g].is_active
       /\ viewers' = [viewers EXCEPT ![s] =
             [pc |-> "loaded", kind |-> "listing", id |-> g,
              view_count |-> listings[g].view_count]]
       /\ UNCHANGED <<leads, props, listings, inflight, accounts, vtokens,
                      itokens, posts>>

(* PropertyListing.increment_view_count on the loaded object *)
SaveListingViewCount ==
    \E s \in ViewSlots :
       /\ viewers[s].pc = "loaded" /\ viewers[s].kind = "listing"
       /\ listings' = [listings EXCEPT ![viewers[s].id].view_count =
                          viewers[s].view_count + 1]
       /\ viewers' = [viewers EXCEPT ![s].pc = "done"]
       /\ UNCHANGED <<leads, props, inflight, accounts, vtokens, itokens, posts>>

(* blog.views.post_detail: get_object_or_404 over the published posts *)
LoadPost ==
    \E s \in ViewSlots, b \in 1 .. Len(posts) :
       /\ viewers[s].pc = "idle"
       /\ posts[b].status = "published"
       /\ viewers' = [viewers EXCEPT ![s] =
             [pc |-> "loaded", kind |-> "post", id |-> b,
              view_count |-> posts[b].view_count]]
       /\ UNCHANGED <<leads, props, listings, inflight, accounts, vtokens,
                      itokens, posts>>

(* BlogPost.increment_view_count on the loaded object *)
SavePostViewCount ==
    \E s \in ViewSlots :
       /\ viewers[s].pc = "loaded" /\ viewers[s].kind = "post"
       /\ posts' = [posts EXCEPT ![viewers[s].id].view_count =
                       viewers[s].view_count + 1]
       /\ viewers' = [viewers EXCEPT ![s].pc = "done"]
       /\ UNCHANGED <<leads, props, listings, inflight, accounts, vtokens,
                      itokens>>

NextViews ==
    \/ ListingCreate
    \/ PublishPost
    \/ LoadListing
    \/ SaveListingViewCount
    \/ LoadPost
    \/ SavePostViewCount

SpecViews == Init /\ [][NextViews]_vars

----------------------------------------------------------------------------
(* Properties.  A property of a handler is stated over its result in every *)
(* reachable state of the tables and for every request.                    *)

Stored == 1 .. Len(leads)

PassesAgentCheck(u, l) == Role(u) = "Admin" \/ leads[l].agent = u

PropertiesOf(l) == {q \in 1 .. Len(props) : props[q].lead = l}

(* C1: a lead is accepted at most once and gets at most one Property: no   *)
(* lead has two Property rows made for it, and an accept request on a lead *)
(* that already has a Property, or whose status is accepted, rejected or   *)
(* closed, does not succeed.                                               *)
C1_AcceptAtMostOnce ==
    \A l \in Stored :
       /\ Cardinality(PropertiesOf(l)) <= 1
       /\ \A u \in Users :
            (\/ leads[l].status \in {"accepted", "rejected", "closed"}
             \/ leads[l].property # NoProperty)
               => AcceptResult(u, l, "accept").code # 200

(* C2: a successful assignment request leaves the lead with the requested  *)
(* agent, status 'assigned' and assigned_at set.                           *)
C2_AssignmentSetsAssigned ==
    \A u \in Users, l \in Stored, a \in AgentIds :
       AssignResult(u, l, a).code = 200 =>
          /\ AssignResult(u, l, a).leads[l].agent = a
          /\ AssignResult(u, l, a).leads[l].status = "assigned"
          /\ AssignResult(u, l, a).leads[l].assigned_at

(* C3: on a lead as the submission endpoint made it, an assignment request *)
(* by an Agent or Agency_Admin who belongs to an agency, naming an agent   *)
(* of that agency, succeeds.                                               *)
C3_AgencyMemberAssignsNewLead ==
    \A u \in Users, l \in Stored, a \in AgentIds \cap Users :
       (/\ leads[l] = NewLead(leads[l].spotter)
        /\ Role(u) \in {"Agent", "Agency_Admin"}
        /\ AgencyOf(u) # NULL
        /\ Role(a) \in {"Agent", "Agency_Admin"}
        /\ AgencyOf(a) = AgencyOf(u))
          => AssignResult(u, l, a).code = 200

(* C4: a submission request stores at most one new lead and touches no     *)
(* other row; the lead it stores has status 'new', is_accepted false, no   *)
(* agent, no assigned agency, no Property, and the requester as spotter; a *)
(* request answered 201 has stored one; a request by a user who is not a   *)
(* Spotter, or with a required field missing or empty, stores none.        *)
C4_SubmissionCreatesNewLead ==
    \A u \in Users, p \in SubmissionPayloads, imagesOk \in BOOLEAN,
       wa \in WhatsAppOutcomes :
       LET r == SubmitResult(u, p, imagesOk, wa)
           n == Len(leads)
       IN /\ r.props = props
          /\ Len(r.leads) \in {n, n + 1}
          /\ SubSeq(r.leads, 1, n) = leads
          /\ r.code = 201 => Len(r.leads) = n + 1
          /\ Len(r.leads) = n + 1 =>
                /\ r.leads[n + 1].status = "new"
                /\ r.leads[n + 1].is_accepted = FALSE
                /\ r.leads[n + 1].agent = NULL
                /\ r.leads[n + 1].assigned_agency = NULL
                /\ r.leads[n + 1].property = NoProperty
                /\ r.leads[n + 1].spotter = u
          /\ (Role(u) # "Spotter" \/ \E f \in RequiredFields : p[f] \in {NULL, ""})
                => (r.leads = leads /\ r.code \in {400, 403})

C4_Witness ==
    /\ Len(leads) >= 1
    /\ leads[Len(leads)].spotter = "spot2"
    /\ leads[Len(leads)].status = "new"
    /\ SubmitResult("spot2", FullPayload, TRUE, "sent").code = 201

(* C5: on a lead that has an agent and was never accepted nor closed, the  *)
(* agent's accept request succeeds (a Property owned by the agent is made  *)
(* and linked, status 'accepted', is_accepted true), and the agent's       *)
(* reject request succeeds too (status 'rejected', is_accepted false,      *)
(* accepted_at cleared).                                                   *)
C5_AcceptAndRejectAvailable ==
    \A l \in Stored :
       LET u == leads[l].agent
           acc == AcceptResult(u, l, "accept")
           rej == AcceptResult(u, l, "reject")
       IN (/\ u \in Users
           /\ ~leads[l].is_accepted
           /\ leads[l].property = NoProperty
           /\ leads[l].status # "closed")
          => /\ acc.code = 200
             /\ Len(acc.props) = Len(props) + 1
             /\ acc.props[Len(props) + 1].owner = u
             /\ acc.leads[l].property = Len(props) + 1
             /\ acc.leads[l].status = "accepted"
             /\ acc.leads[l].is_accepted
             /\ rej.code = 200
             /\ rej.leads[l].status = "rejected"
             /\ ~rej.leads[l].is_accepted
             /\ ~rej.leads[l].accepted_at

(* C6: a completion request answered 200 was made on a lead that had a     *)
(* Property and was not closed; it leaves the lead closed with closed_at   *)
(* set and the lead's Property sold at the final_price of the request.     *)
C6_CompletionClosesAndSells ==
    \A u \in Users, l \in LeadIds, hasPrice \in BOOLEAN, price \in Prices,
       wa \in WhatsAppOutcomes :
       LET r == CompleteResult(u, l, hasPrice, price, wa)
       IN r.code = 200 =>
             /\ l \in Stored
             /\ leads[l].property # NoProperty
             /\ leads[l].status # "closed"
             /\ r.leads[l].status = "closed"
             /\ r.leads[l].closed_at
             /\ r.leads[l].property = leads[l].property
             /\ r.props[leads[l].property].status = "sold"
             /\ hasPrice
             /\ r.props[leads[l].property].price = price

C6_Witness ==
    \E l \in Stored :
       /\ leads[l].status = "closed"
       /\ leads[l].closed_at
       /\ leads[l].property # NoProperty
       /\ props[leads[l].property].status = "sold"
       /\ props[leads[l].property].price = 250

(* P holds of the result of every request that can be made, in the current *)
(* state, of the accept/reject, property-update, completion and failure    *)
(* endpoints by user u on lead id l.                                       *)
EveryAgentResult(u, l, P(_)) ==
    /\ \A action \in Actions : P(AcceptResult(u, l, action))
    /\ \A pstatus \in PropertyStatuses, hasPrice \in BOOLEAN,
          price \in UpdatePrices, commission \in CommissionInputs :
            P(PropertyUpdateResult(u, l, pstatus, hasPrice, price, commission))
    /\ \A hasPrice \in BOOLEAN, price \in Prices, wa \in WhatsAppOutcomes :
            P(CompleteResult(u, l, hasPrice, price, wa))
    /\ \A hasReason \in BOOLEAN, wa \in WhatsAppOutcomes :
            P(FailResult(u, l, hasReason, wa))

(* P holds of the result of every request that can be made of any lead     *)
(* endpoint in the current state.                                          *)
EveryResult(P(_)) ==
    /\ \A u \in Users, l \in LeadIds : EveryAgentResult(u, l, P)
    /\ \A u \in Users, l \in LeadIds, a \in AgentIds : P(AssignResult(u, l, a))
    /\ \A u \in Users, l \in LeadIds : P(DetailResult(u, l))
    /\ \A u \in Users, p \in SubmissionPayloads, imagesOk \in BOOLEAN,
          wa \in WhatsAppOutcomes : P(SubmitResult(u, p, imagesOk, wa))

(* C7: closed is terminal.  On a closed lead every accept, reject,         *)
(* property-update, complete and fail request is refused and writes        *)
(* nothing, with 400 when the requester passes the view's permission check *)
(* (403 otherwise); and no request to any endpoint changes the lead's      *)
(* status, closed_at or Property link.                                     *)
C7_ClosedIsTerminal ==
    LET Closed == {l \in Stored : leads[l].status = "closed"}
    IN /\ \A l \in Closed, u \in Users :
             EveryAgentResult(u, l, LAMBDA r :
                /\ r.code \in {400, 403}
                /\ PassesAgentCheck(u, l) => r.code = 400
                /\ r.leads = leads
                /\ r.props = props)
       /\ Closed # {} =>
             EveryResult(LAMBDA r : \A l \in Closed :
                /\ r.leads[l].status = "closed"
                /\ r.leads[l].closed_at = leads[l].closed_at
                /\ r.leads[l].property = leads[l].property)

C7_Witness ==
    \E l \in Stored :
       /\ leads[l].status = "closed"
       /\ leads[l].closed_at
       /\ leads[l].property # NoProperty
       /\ leads[l].agent = "agentN"
       /\ AcceptResult("agentN", l, "reject").code = 400

(* C8: a lead's status changes only along the chain new -> assigned ->     *)
(* accepted or rejected -> in_progress -> closed.                          *)
StatusChain ==
    { <<"new", "assigned">>,
      <<"assigned", "accepted">>, <<"assigned", "rejected">>,
      <<"accepted", "in_progress">>, <<"rejected", "in_progress">>,
      <<"in_progress", "closed">> }

C8_StatusFollowsChain ==
    [][\A l \in Stored :
          leads'[l].status # leads[l].status =>
             <<leads[l].status, leads'[l].status>> \in StatusChain]_vars

(* C9: an accept/reject, property-update, complete or fail request on a    *)
(* stored lead is answered 403 exactly when the requester is neither an    *)
(* Admin nor the lead's agent, and a 403 writes nothing.                   *)
C9_AdminOrAssignedAgent ==
    \A u \in Users, l \in Stored :
       /\ EveryAgentResult(u, l, LAMBDA r :
             /\ r.code = 403 <=> ~(Role(u) = "Admin" \/ leads[l].agent = u)
             /\ r.code = 403 => (r.leads = leads /\ r.props = props))
       /\ \A action \in {"accept", "reject"} :
             (Role(u) # "Admin" /\ leads[l].agent # u)
                => AcceptResult(u, l, action).code = 403

C9_Witness ==
    \E l \in Stored :
       /\ leads[l].agent = "agentN"
       /\ leads[l].status = "accepted"
       /\ props[leads[l].property].owner = "agentN"
       /\ AcceptResult("agentA", l, "reject").code = 403
       /\ AcceptResult("agentN", l, "reject").code = 200

(* C10: a request by a user who is not an Admin is answered 403 by the     *)
(* detail endpoint unless the user is the lead's spotter or an Agent or    *)
(* Agency_Admin whose agency is the lead's assigned agency, and by the     *)
(* assignment endpoint unless the user is such an agency member; no agency *)
(* never matches no assigned agency, and a 403 writes nothing.             *)
SameAgency(u, l) ==
    /\ Role(u) \in {"Agent", "Agency_Admin"}
    /\ AgencyOf(u) # NULL
    /\ leads[l].assigned_agency # NULL
    /\ AgencyOf(u) = leads[l].assigned_agency

C10_ForbiddenOutsideAgency ==
    \A u \in Users, l \in Stored :
       Role(u) # "Admin" =>
          /\ ~((Role(u) = "Spotter" /\ leads[l].spotter = u) \/ SameAgency(u, l))
                => DetailResult(u, l).code = 403
          /\ \A a \in AgentIds :
                /\ ~SameAgency(u, l) => AssignResult(u, l, a).code = 403
                /\ AssignResult(u, l, a).code = 403
                      => (AssignResult(u, l, a).leads = leads
                          /\ AssignResult(u, l, a).props = props)

(* C11: whenever a lead's spotter_commission_amount or platform_fee is     *)
(* set, its agreed_commission_amount A is set too, the spotter's amount is *)
(* 5% of A and the platform fee is 2.5% of A.                              *)
C11_CommissionsFollowAgreedAmount ==
    \A l \in Stored :
       (leads[l].spotter_commission_amount # NoAmount
           \/ leads[l].platform_fee # NoAmount)
       => /\ leads[l].agreed_commission_amount # NoAmount
          /\ leads[l].spotter_commission_amount * 100
                = leads[l].agreed_commission_amount * 5
          /\ leads[l].platform_fee * 1000
                = leads[l].agreed_commission_amount * 25

(* C12: a failing WhatsApp or email send does not change the outcome of a  *)
(* lead submission, completion or failure or of a contact-form submission: *)
(* whenever the request is answered with success when the send works, it   *)
(* is answered with the same status and leaves the same rows when the send *)
(* raises.  (The assignment handler catches the failure of its sends: its  *)
(* result does not depend on them.)                                        *)
C12_NotificationFailureSwallowed ==
    /\ \A u \in Users, p \in SubmissionPayloads :
          SubmitResult(u, p, TRUE, "sent").code = 201
             => SubmitResult(u, p, TRUE, "raised") = SubmitResult(u, p, TRUE, "sent")
    /\ \A u \in Users, l \in LeadIds, price \in Prices :
          CompleteResult(u, l, TRUE, price, "sent").code = 200
             => CompleteResult(u, l, TRUE, price, "raised")
                   = CompleteResult(u, l, TRUE, price, "sent")
    /\ \A u \in Users, l \in LeadIds :
          FailResult(u, l, TRUE, "sent").code = 200
             => FailResult(u, l, TRUE, "raised") = FailResult(u, l, TRUE, "sent")
    /\ \A valid \in BOOLEAN :
          ContactResult(valid, "raised") = ContactResult(valid, "sent")

Unchanged(r) == r.leads = leads /\ r.props = props

(* C13: on every lead and listing write endpoint, a request that passes    *)
(* the endpoint's permission checks and whose payload fails validation is  *)
(* answered 400 and changes no stored record.                              *)
C13_ValidationFailureIs400 ==
    /\ \A u \in Users, p \in SubmissionPayloads, imagesOk \in BOOLEAN,
          wa \in WhatsAppOutcomes :
          LET r == SubmitResult(u, p, imagesOk, wa)
          IN (IsSpotter(u) /\ MissingFields(p) # {})
                => (r.code = 400 /\ Unchanged(r))
    /\ \A u \in Users, l \in Stored, a \in AgentIds :
          LET r == AssignResult(u, l, a)
          IN (/\ IsAgencyMember(u)
              /\ AssignmentAllowed(u, leads[l])
              /\ ~LeadAssignmentValid(leads[l], a))
                => (r.code = 400 /\ Unchanged(r))
    /\ \A u \in Users, l \in Stored :
          AgentGetObjectAllowed(u, leads[l]) =>
             /\ \A action \in Actions :
                   LET r == AcceptResult(u, l, action)
                   IN ~LeadAcceptanceValid(leads[l], action)
                         => (r.code = 400 /\ Unchanged(r))
             /\ \A pstatus \in PropertyStatuses, hasPrice \in BOOLEAN,
                   price \in UpdatePrices, commission \in CommissionInputs :
                   LET r == PropertyUpdateResult(u, l, pstatus, hasPrice, price,
                                                 commission)
                   IN ~LeadPropertyUpdateValid(leads[l])
                         => (r.code = 400 /\ Unchanged(r))
             /\ \A hasPrice \in BOOLEAN, price \in Prices, wa \in WhatsAppOutcomes :
                   LET r == CompleteResult(u, l, hasPrice, price, wa)
                   IN ~LeadCompletionValid(leads[l], hasPrice)
                         => (r.code = 400 /\ Unchanged(r))
             /\ \A hasReason \in BOOLEAN, wa \in WhatsAppOutcomes :
                   LET r == FailResult(u, l, hasReason, wa)
                   IN ~LeadFailureValid(leads[l], hasReason)
                         => (r.code = 400 /\ Unchanged(r))
    /\ \A u \in Users, images \in 0 .. 1 :
          LET r == ListingCreateResult(u, FALSE, images)
          IN r.code = 400 /\ r.listings = listings
    /\ \A u \in Users, g \in ListingIds :
          (ListingExists(g) /\ ListingVisible(u, g)) =>
             /\ \A active \in ActiveInputs, hasImages \in BOOLEAN, images \in 0 .. 1 :
                   LET r == ListingUpdateResult(u, g, FALSE, active, hasImages, images)
                   IN r.code = 400 /\ r.listings = listings
             /\ LET r == ImageUploadResult(u, g, FALSE)
                IN r.code = 400 /\ r.listings = listings

(* C14: a request that addresses a lead id or a listing id that does not   *)
(* exist, made by a user the endpoint's permission classes admit, is       *)
(* answered 404 and changes nothing.                                       *)
C14_MissingIdIs404 ==
    /\ \A u \in Users, l \in LeadIds \ Stored :
          /\ DetailResult(u, l).code = 404
          /\ \A a \in AgentIds :
                IsAgencyMember(u) =>
                   (AssignResult(u, l, a).code = 404 /\ Unchanged(AssignResult(u, l, a)))
          /\ EveryAgentResult(u, l, LAMBDA r : r.code = 404 /\ Unchanged(r))
    /\ \A u \in Users, g \in ListingIds :
          ~ListingExists(g) =>
             /\ ListingDetailResult(g) = ListingRefused(404)
             /\ \A valid \in BOOLEAN, active \in ActiveInputs, hasImages \in BOOLEAN,
                   images \in 0 .. 1 :
                   ListingUpdateResult(u, g, valid, active, hasImages, images)
                      = ListingRefused(404)
             /\ ListingDeleteResult(u, g) = ListingRefused(404)
             /\ \A valid \in BOOLEAN :
                   ImageUploadResult(u, g, valid) = ListingRefused(404)

(* Lead l has status st now, or after at most one, two, three, four        *)
(* requests to the lead endpoints.                                         *)
HasStatus(l, st) == l \in Stored /\ leads[l].status = st

Within1(l, st) == HasStatus(l, st) \/ ENABLED (Next /\ HasStatus(l, st)')

Within2(l, st) == HasStatus(l, st) \/ ENABLED (Next /\ Within1(l, st)')

Within3(l, st) == HasStatus(l, st) \/ ENABLED (Next /\ Within2(l, st)')

Within4(l, st) == HasStatus(l, st) \/ ENABLED (Next /\ Within3(l, st)')

LeadStatuses ==
    {"new", "assigned", "accepted", "rejected", "in_progress", "closed"}

(* C15: each of the six lead statuses is reachable from a freshly          *)
(* submitted lead: there is a sequence of requests (four are enough for    *)
(* the longest chain, new, assigned, accepted, in_progress, closed) after  *)
(* which the lead has that status.                                         *)
C15_EveryStatusReachable ==
    \A l \in Stored :
       leads[l] = NewLead(leads[l].spotter) =>
          \A st \in LeadStatuses : Within4(l, st)

(* C16: in every state reached through the lead endpoints, a lead's status *)
(* is 'accepted' only if is_accepted is true, accepted_at is set and a     *)
(* Property is linked; is_accepted is true only if the status is           *)
(* 'accepted' or 'closed'; closed_at is set exactly when the status is     *)
(* 'closed'.                                                               *)
C16_AcceptanceFieldsAgree ==
    \A l \in Stored :
       /\ leads[l].status = "accepted" =>
             /\ leads[l].is_accepted
             /\ leads[l].accepted_at
             /\ leads[l].property \in 1 .. Len(props)
       /\ leads[l].is_accepted => leads[l].status \in {"accepted", "closed"}
       /\ leads[l].closed_at <=> leads[l].status = "closed"

C16_Witness ==
    \E l \in Stored :
       /\ leads[l].status = "closed"
       /\ leads[l].is_accepted
       /\ leads[l].accepted_at
       /\ leads[l].closed_at
       /\ leads[l].property \in 1 .. Len(props)

(* C17: whenever a lead is assigned or reassigned, through                 *)
(* Lead.assign_to_agent or through the assignment endpoint, its acceptance *)
(* is reset: afterwards is_accepted is false and accepted_at is null.      *)
C17_AssignmentResetsAcceptance ==
    \A l \in Stored :
       /\ \A a \in Users :
             /\ ~assign_to_agent(leads[l], a).is_accepted
             /\ ~assign_to_agent(leads[l], a).accepted_at
       /\ \A u \in Users, a \in AgentIds :
             AssignResult(u, l, a).code = 200 =>
                /\ ~AssignResult(u, l, a).leads[l].is_accepted
                /\ ~AssignResult(u, l, a).leads[l].accepted_at

(* C18: when two accept requests for the same lead are handled at the same *)
(* time, at most one of them succeeds and one Property is made for the     *)
(* lead.                                                                   *)
C18_ConcurrentAcceptOnce ==
    \A l \in Stored :
       /\ Cardinality(PropertiesOf(l)) <= 1
       /\ \A s, t \in Slots :
             (/\ s # t
              /\ inflight[s].kind = "accept" /\ inflight[s].l = l
              /\ inflight[t].kind = "accept" /\ inflight[t].l = l)
                => ~(inflight[s].pc = "done" /\ inflight[t].pc = "done")

(* C19: once a lead is stored as closed, no request that was being handled *)
(* at the same time changes its status away from 'closed' or clears        *)
(* closed_at.                                                              *)
C19_ClosedSurvivesConcurrentWrites ==
    [][\A l \in Stored :
          (leads[l].status = "closed" /\ leads[l].closed_at)
             => (leads'[l].status = "closed" /\ leads'[l].closed_at)]_vars

(* C20: a lead submission, completion, failure or property update, or the  *)
(* creation of an update notification, that is answered with a 4xx or 5xx  *)
(* status leaves the stored leads, properties and updates as they were     *)
(* before the request.                                                     *)
C20_ErrorAnswerLeavesNoWrite ==
    /\ \A u \in Users, p \in SubmissionPayloads, imagesOk \in BOOLEAN,
          wa \in WhatsAppOutcomes :
          LET r == SubmitResult(u, p, imagesOk, wa)
          IN  r.code >= 400 => Unchanged(r)
    /\ \A u \in Users, l \in LeadIds, hasPrice \in BOOLEAN, price \in Prices,
          wa \in WhatsAppOutcomes :
          LET r == CompleteResult(u, l, hasPrice, price, wa)
          IN  r.code >= 400 => Unchanged(r)
    /\ \A u \in Users, l \in LeadIds, hasReason \in BOOLEAN,
          wa \in WhatsAppOutcomes :
          LET r == FailResult(u, l, hasReason, wa)
          IN  r.code >= 400 => Unchanged(r)
    /\ \A u \in Users, l \in LeadIds, pstatus \in PropertyStatuses,
          hasPrice \in BOOLEAN, price \in UpdatePrices :
          LET r == PropertyUpdateResult(u, l, pstatus, hasPrice, price, AbsentAmount)
          IN  r.code >= 400 => Unchanged(r)
    /\ \A recipient \in Users \cup {GhostUser}, valid \in BOOLEAN,
          send \in SendResults :
          LET r == UpdateCreateResult(recipient, valid, send)
          IN  r.code >= 400 => r.created = << >>

(* Every request of the users endpoints that asks nothing of a token or of *)
(* the activation endpoints: P holds of its result.                        *)
EveryOtherUserResult(P(_)) ==
    /\ \A email \in NewEmails, role \in RegistrationRoles,
          agency \in RegistrationAgencies, valid \in BOOLEAN,
          mail \in MailOutcomes, atomic \in BOOLEAN :
          P(RegistrationResult(email, role, agency, valid, mail, atomic))
    /\ \A email \in AccountIds \cup {GhostUser}, valid \in BOOLEAN,
          mail \in MailOutcomes, atomic \in BOOLEAN :
          P(PasswordResetRequestResult(email, valid, mail, atomic))
    /\ \A u \in AccountIds, email \in InviteEmails, valid \in BOOLEAN,
          mail \in MailOutcomes :
          P(AgentInvitationResult(u, email, valid, mail))
    /\ \A email \in AccountIds, password \in Passwords :
          P(EmailLoginResult(email, password))

(* C21: an account made by the registration endpoint starts inactive; as   *)
(* long as it is inactive, login and bearer authentication refuse it, and  *)
(* the only requests whose result has it active are a verify-email with an *)
(* unused, unexpired token of that account and a reactivation sent by an   *)
(* active Admin, Agent or Agency_Admin.                                    *)
C21_InactiveUntilVerifiedOrReactivated ==
    \A e \in NewEmails :
       /\ ~HasAccount(e) =>
             EveryOtherUserResult(LAMBDA r : ~r.accounts[e].is_active)
       /\ (HasAccount(e) /\ ~accounts[e].is_active) =>
             /\ \A password \in Passwords : EmailLoginResult(e, password).code = 400
             /\ ~BearerAuthenticates(e)
             /\ EveryOtherUserResult(LAMBDA r : ~r.accounts[e].is_active)
             /\ \A u \in AccountIds, target \in AccountIds \cup {GhostUser} :
                   ~DeactivateResult(u, target).accounts[e].is_active
             /\ \A t \in VTokenIds, password \in Passwords, valid \in BOOLEAN :
                   ~PasswordResetConfirmResult(t, password, valid).accounts[e].is_active
             /\ \A k \in InvitationKeys, password \in Passwords, valid \in BOOLEAN :
                   ~SetPasswordResult(k, password, valid).accounts[e].is_active
             /\ \A t \in VTokenIds :
                   EmailVerificationResult(t).accounts[e].is_active =>
                      /\ t \in 1 .. Len(vtokens)
                      /\ vtokens[t].user = e
                      /\ ~vtokens[t].used
                      /\ ~vtokens[t].expired
             /\ \A u \in AccountIds, target \in AccountIds \cup {GhostUser} :
                   ReactivateResult(u, target).accounts[e].is_active =>
                      /\ target = e
                      /\ accounts[u].exists /\ accounts[u].is_active
                      /\ accounts[u].role \in {"Admin", "Agent", "Agency_Admin"}

(* An inactive registered account for which a verify-email request and a   *)
(* reactivation are each answered with the account active.                 *)
C21_Witness ==
    \E e \in NewEmails, t \in VTokenIds, u \in AccountIds :
       /\ HasAccount(e) /\ ~accounts[e].is_active
       /\ EmailVerificationResult(t).code = 200
       /\ EmailVerificationResult(t).accounts[e].is_active
       /\ ReactivateResult(u, e).code = 200
       /\ ReactivateResult(u, e).accounts[e].is_active

UserUnchanged(r) ==
    r.accounts = accounts /\ r.vtokens = vtokens /\ r.itokens = itokens

(* C22: a request that succeeds with a verification or invitation token    *)
(* leaves the token used; every verify-email and password-reset-confirm    *)
(* request that presents a used or expired VerificationToken, and every    *)
(* set-password request that presents a used or expired InvitationToken,   *)
(* is answered 400 and changes no row.                                     *)
C22_TokenAcceptedOnce ==
    /\ \A t \in 1 .. Len(vtokens) :
          /\ EmailVerificationResult(t).code = 200 =>
                EmailVerificationResult(t).vtokens[t].used
          /\ \A password \in Passwords, valid \in ResetSerializerVerdicts :
                LET r == PasswordResetConfirmResult(t, password, valid)
                IN  r.code = 200 => r.vtokens[t].used
          /\ (vtokens[t].used \/ vtokens[t].expired) =>
                /\ EmailVerificationResult(t).code = 400
                /\ UserUnchanged(EmailVerificationResult(t))
                /\ \A password \in Passwords, valid \in ResetSerializerVerdicts :
                      LET r == PasswordResetConfirmResult(t, password, valid)
                      IN  r.code = 400 /\ UserUnchanged(r)
    /\ \A k \in InviteEmails :
          itokens[k].exists =>
             \A password \in Passwords, valid \in BOOLEAN :
                LET r == SetPasswordResult(k, password, valid)
                IN  /\ r.code = 201 => r.itokens[k].is_used
                    /\ (itokens[k].is_used \/ itokens[k].expired) =>
                          (r.code = 400 /\ UserUnchanged(r))

(* A verification token used by a successful request, another that ran out *)
(* unused, and an invitation used by a successful set-password.            *)
C22_Witness ==
    /\ \E t, x \in 1 .. Len(vtokens) :
          /\ vtokens[t].used /\ ~vtokens[t].expired
          /\ vtokens[x].expired /\ ~vtokens[x].used
    /\ \E k \in InviteEmails : itokens[k].is_used /\ HasAccount(k)

(* C23: the accounts of Users and the invited accounts are active from the *)
(* start, so such an account is inactive only after a deactivate request.  *)
(* While it is inactive, login and bearer authentication refuse it, and no *)
(* password-reset request, password-reset confirm or verify-email request  *)
(* has a result in which it is active.                                     *)
C23_DeactivatedStaysInactive ==
    \A e \in Users \cup InviteEmails :
       (HasAccount(e) /\ ~accounts[e].is_active) =>
          /\ \A password \in Passwords : EmailLoginResult(e, password).code = 400
          /\ ~BearerAuthenticates(e)
          /\ \A email \in AccountIds \cup {GhostUser},
                valid \in ResetSerializerVerdicts, mail \in MailOutcomes,
                atomic \in BOOLEAN :
                ~PasswordResetRequestResult(email, valid, mail, atomic).accounts[e].is_active
          /\ \A t \in VTokenIds, password \in Passwords,
                valid \in ResetSerializerVerdicts :
                ~PasswordResetConfirmResult(t, password, valid).accounts[e].is_active
          /\ \A t \in VTokenIds :
                ~EmailVerificationResult(t).accounts[e].is_active

(* C24: every account made by the registration endpoint or by the          *)
(* set-password endpoint has role Spotter or Agent.                        *)
C24_PublicAccountsAreSpotterOrAgent ==
    \A e \in NewEmails \cup InviteEmails :
       HasAccount(e) => accounts[e].role \in {"Spotter", "Agent"}

(* C25: a deactivate or reactivate request sent by an authenticated user   *)
(* who is not an Admin, for an account that exists, succeeds only if the   *)
(* target is in the requester's agency and has role Agent; otherwise it is *)
(* answered 403 and changes nothing.                                       *)
C25_NonAdminActivationOnlyOwnAgents ==
    \A u \in AccountIds, target \in AccountIds :
       (/\ BearerAuthenticates(u)
        /\ accounts[u].role # "Admin"
        /\ HasAccount(target)) =>
          LET own == /\ accounts[u].agency # NULL
                     /\ accounts[target].agency = accounts[u].agency
                     /\ accounts[target].role = "Agent"
              d == DeactivateResult(u, target)
              r == ReactivateResult(u, target)
          IN  /\ d.code = 200 => own
              /\ r.code = 200 => own
              /\ ~own => (d.code = 403 /\ UserUnchanged(d))
              /\ ~own => (r.code = 403 /\ UserUnchanged(r))

(* C26: a password-reset request for the address of an account and one for *)
(* an address without account, alike in everything else, are answered with *)
(* the same status and the same body.                                      *)
C26_ResetRequestHidesAccounts ==
    \A known, unknown \in AccountIds \cup {GhostUser},
       valid \in ResetSerializerVerdicts, mail \in MailOutcomes,
       atomic \in BOOLEAN :
       (HasAccount(known) /\ ~HasAccount(unknown)) =>
          LET a == PasswordResetRequestResult(known, valid, mail, atomic)
              b == PasswordResetRequestResult(unknown, valid, mail, atomic)
          IN  a.code = b.code /\ a.body = b.body

(* The retrievals of listing g, or of post b, that have run to their end. *)
Retrieved(kind, id) ==
    Cardinality({s \in ViewSlots :
                    /\ viewers[s].pc = "done"
                    /\ viewers[s].kind = kind
                    /\ viewers[s].id = id})

(* C27: once every retrieval that was started has run to its end, the      *)
(* view_count of a listing, and of a post, is the number of its            *)
(* retrievals.                                                             *)
C27_ViewCountCountsRetrievals ==
    (\A s \in ViewSlots : viewers[s].pc # "loaded") =>
       /\ \A g \in 1 .. Len(listings) :
             listings[g].view_count = Retrieved("listing", g)
       /\ \A b \in 1 .. Len(posts) :
             posts[b].view_count = Retrieved("post", b)

====
